---- MODULE Spec2Model ----
(***************************************************************************)
(* Model of the fleet simulation engine of backend/services/simulation.py  *)
(* (Route, Bus, TransportSimulation), of the way backend/main.py starts     *)
(* and stops its loop on the asyncio event loop, of the scheduler of        *)
(* backend/services/background_tasks.py and of the audit log of             *)
(* backend/services/audit_service.py.                                       *)
(*                                                                         *)
(* Units.  Coordinates are integers in units of 0.0001 degree, which is the *)
(* base rate of Bus.update_position (0.0001 degree per second), so that     *)
(* step = delta_seconds * speed_factor / dist.  progress_to_next is a       *)
(* fixed-point number in units of 1/ProgressScale, and lat/lon of a bus are *)
(* kept in units of 0.0001/ProgressScale degree, which makes the            *)
(* interpolation of lines 77-78 exact integer arithmetic.  Floating-point   *)
(* rounding is not modelled there: the arithmetic is that of the reals.     *)
(* SpecDouble models progress_to_next as an IEEE-754 double.                *)
(*                                                                         *)
(* Scheduling.  Every coroutine of the program runs on one asyncio event    *)
(* loop: a task runs from one await to the next without interruption.  The  *)
(* variable cpu names the task that is running (0: the loop is idle).       *)
(***************************************************************************)
EXTENDS Integers, Sequences, FiniteSets, TLC

VARIABLES
    phase,      \* where the construction of TransportSimulation, then the lifespan of the application, stands
    routes,     \* TransportSimulation.routes: route id -> path (sequence of waypoints)
    route_stats,\* TransportSimulation.route_stats: route id -> {revenue, reliability}
    buses,      \* TransportSimulation.buses: the Bus objects in insertion order
    running,    \* TransportSimulation.running
    pc,         \* per task created from simulation.run(): where it stands
    cursor,     \* per task: position of update()'s iteration over self.buses
    cpu,        \* the task the event loop is executing, 0 when none
    ticks,      \* number of update() calls the loop tasks began so far
    resamples,  \* number of status resamples the loop tasks' ticks fired so far
    stopReq,    \* history: running was set to False and no task was created since
    stale,      \* history: tasks that were inside their sleep when running was set to False
    event,      \* history: the buses whose status the step into this state resampled
    op,         \* history: the operation whose step led into this state
    result,     \* what the last call of a reader returned
    seen,       \* history: the value of result as its caller saw it on return
    since,      \* history: the ticks an on-time bus made on its segment (SpecDouble)
    scheduler,  \* the BackgroundTaskScheduler object: running and tasks
    jobs,       \* the asyncio tasks the scheduler created for its loops: where each stands
    stop_waits, \* the call of BackgroundTaskScheduler.stop() that waits in its gather, if any
    audit_log   \* the lines of the audit log file, oldest first

\* the state of the services next to the simulation
services == <<scheduler, jobs, stop_waits, audit_log>>

\* the state of the simulation, its loop tasks and the lifespan
simulation == <<phase, routes, route_stats, buses, running, pc, cursor, cpu, ticks, resamples,
                stopReq, stale, event, result, seen, since>>

vars == <<phase, routes, route_stats, buses, running, pc, cursor, cpu, ticks, resamples,
          stopReq, stale, event, op, result, seen, since, scheduler, jobs, stop_waits, audit_log>>

---------------------------------------------------------------------------
(* Bounds of the model *)

\* number of tasks asyncio.create_task(simulation.run()) may create
MaxTasks == 2

\* number of update() calls the loop tasks may begin
MaxTicks == 3

\* number of times the 1% resample of update() may fire in the loop tasks' ticks
MaxResamples == 1

\* number of update() calls on the fleet that the readers are called on
MaxReadTicks == 2

\* number of calls of BackgroundTaskScheduler.start()
MaxStarts == 2

\* number of events log_event() appends to the audit log
MaxEvents == 3

Tasks == 1..MaxTasks

---------------------------------------------------------------------------
(* Program constants *)

\* random.randint(10, 50) of Bus.__init__
InitOccLo == 10
InitOccHi == 50

\* random.randint(-5, 10) of the passenger exchange
ChangeLo == -5
ChangeHi == 10

\* max(0, min(100, ...))
OccMin == 0
OccMax == 100

\* random.randint(15, 45), random.randint(5, 14), random.randint(0, 4)
CriticalLo == 15
CriticalHi == 45
MinorLo == 5
MinorHi == 14
OnTimeLo == 0
OnTimeHi == 4

\* progress_to_next is counted in units of 1/ProgressScale
ProgressScale == 5 * 10

\* 1.0 in units of 1/ProgressScale
One == ProgressScale

\* if dist == 0: dist = 0.001, in units of 0.0001 degree
ZeroDist == 2 * 5

Statuses == {"on-time", "minor-delay", "critical-delay"}

---------------------------------------------------------------------------
(* The random module.  A draw is a nondeterministic choice; the model draws *)
(* the two ends of the range of random.randint.                             *)

RandInt(lo, hi) == {lo, hi}

\* random.random() in hundredths, for the draw r of update(): the values on both
\* sides of the thresholds 0.1 and 0.4
RandomR == {9, 10, 39, 40}

---------------------------------------------------------------------------
(* Route and Bus *)

Max(a, b) == IF a >= b THEN a ELSE b
Min(a, b) == IF a <= b THEN a ELSE b

\* math.sqrt on the squared lengths the model's routes have (all perfect squares)
Sqrt(n) == CHOOSE r \in 0..n : r * r = n

\* route.path[i] with Python's 0-based index
At(path, i) == path[i + 1]

\* Bus.__init__
NewBus(bus_id, route_id, path, occ) ==
    [ bus_id             |-> bus_id,
      route              |-> route_id,
      current_stop_index |-> 0,
      progress_to_next   |-> 0,
      status             |-> "on-time",
      delay_minutes      |-> 0,
      occupancy          |-> occ,
      lat                |-> IF Len(path) > 0 THEN ProgressScale * At(path, 0).lat ELSE 0,
      lon                |-> IF Len(path) > 0 THEN ProgressScale * At(path, 0).lon ELSE 0 ]

\* a speed factor that does not depend on the status
SpeedFactorIgnoresStatus(status) == 5

\* speed_factor of update_position, in fifths: 0.2, 0.6, 1.0
SpeedFactor5(status) ==
    IF status = "critical-delay" THEN 1
    ELSE IF status = "minor-delay" THEN 3
    ELSE 5

\* a substitute length of 1.0 degree instead of 0.001
DistSubstitutesDegree(a, b) ==
    LET d == Sqrt((b.lat - a.lat) * (b.lat - a.lat) + (b.lon - a.lon) * (b.lon - a.lon))
    IN  IF d = 0 THEN 10 * 10 * 10 * ZeroDist ELSE d

\* dist of update_position between two waypoints
Dist(a, b) ==
    LET d == Sqrt((b.lat - a.lat) * (b.lat - a.lat) + (b.lon - a.lon) * (b.lon - a.lon))
    IN  IF d = 0 THEN ZeroDist ELSE d

\* step = (0.0001 * delta_seconds * speed_factor) / dist, in units of 1/ProgressScale
Step(dist, status, delta) == (ProgressScale * delta * SpeedFactor5(status)) \div (5 * dist)

\* the test of line 65 written with > instead of >=
ReachedNextStrict(progress) == progress > One

\* the test of line 65
ReachedNext(progress) == progress >= One

\* a reset that carries the overshoot into the next segment
ResetKeepsOvershoot(progress) == progress - One

\* progress_to_next after the test of line 65 succeeded
ResetProgress(progress) == 0

\* the clamp of line 71 without its upper limit
ClampNoUpper(occ) == Max(OccMin, occ)

\* max(0, min(100, self.occupancy + change))
Clamp(occ) == Max(OccMin, Min(OccMax, occ))

\* next_index of line 52
NextIndex(i, n) == (i + 1) % n

\* an interpolation that moves the bus with its progress whatever the segment
InterpolateDrifts(cur, nxt, progress) == ProgressScale * cur + progress

\* lines 73-78: the interpolated coordinate
Interpolate(cur, nxt, progress) == ProgressScale * cur + (nxt - cur) * progress

\* Bus.update_position(delta_seconds); change is the draw of line 70
UpdatePosition(b, path, delta, change) ==
    IF Len(path) = 0 THEN b
    ELSE
      LET n        == Len(path)
          i        == b.current_stop_index
          ni       == NextIndex(i, n)
          dist     == Dist(At(path, i), At(path, ni))
          acc      == b.progress_to_next + Step(dist, b.status, delta)
          adv      == ReachedNext(acc)
          p2       == IF adv THEN ResetProgress(acc) ELSE acc
          i2       == IF adv THEN ni ELSE i
          occ2     == IF adv THEN Clamp(b.occupancy + change) ELSE b.occupancy
          cur      == At(path, i2)
          nxt      == At(path, NextIndex(i2, n))
      IN  [ b EXCEPT !.progress_to_next   = p2,
                     !.current_stop_index = i2,
                     !.occupancy          = occ2,
                     !.lat                = Interpolate(cur.lat, nxt.lat, p2),
                     !.lon                = Interpolate(cur.lon, nxt.lon, p2) ]

\* whether update_position advances the bus to the next waypoint
Advances(b, path, delta) ==
    /\ Len(path) > 0
    /\ LET i == b.current_stop_index
       IN  ReachedNext(b.progress_to_next
               + Step(Dist(At(path, i), At(path, NextIndex(i, Len(path)))), b.status, delta))

---------------------------------------------------------------------------
(* TransportSimulation.update: the delay state machine of lines 269-281 *)

\* the bands with the upper end of minor-delay one minute too high
BandOverlapping(status) ==
    IF status = "critical-delay" THEN <<CriticalLo, CriticalHi>>
    ELSE IF status = "minor-delay" THEN <<MinorLo, CriticalLo>>
    ELSE <<OnTimeLo, OnTimeHi>>

\* the band random.randint draws delay_minutes from, per status
Band(status) ==
    IF status = "critical-delay" THEN <<CriticalLo, CriticalHi>>
    ELSE IF status = "minor-delay" THEN <<MinorLo, MinorHi>>
    ELSE <<OnTimeLo, OnTimeHi>>

\* lines 272-280: the status the second draw r (in hundredths) selects
StatusOf(r) ==
    IF r < 10 THEN "critical-delay"
    ELSE IF r < 40 THEN "minor-delay"
    ELSE "on-time"

\* a resample that re-draws delay_minutes in every tick
ResampleEveryTick(b, fire, r, d) ==
    IF fire
    THEN [ b EXCEPT !.status = StatusOf(r), !.delay_minutes = d ]
    ELSE [ b EXCEPT !.delay_minutes = d ]

\* a resample with a recovery rule: a bus in critical delay does not go back
\* to on-time at once, it goes to minor-delay first
ResampleRecovers(b, fire, r, d) ==
    IF fire
    THEN [ b EXCEPT !.status = IF b.status = "critical-delay" /\ StatusOf(r) = "on-time"
                               THEN "minor-delay"
                               ELSE StatusOf(r),
                    !.delay_minutes = d ]
    ELSE b

\* lines 271-281 for one bus: fire is "random.random() < 0.01", r the second
\* draw, d the draw of delay_minutes
Resample(b, fire, r, d) ==
    IF fire
    THEN [ b EXCEPT !.status = StatusOf(r), !.delay_minutes = d ]
    ELSE b

\* draws in which the delay does not follow the status r selects: it is drawn
\* from the on-time band whatever r is
ResampleDrawsOnTimeBand ==
    { [fire |-> FALSE, r |-> 99, d |-> 0] }
    \cup { [fire |-> TRUE, r |-> r, d |-> d] : r \in RandomR, d \in RandInt(OnTimeLo, OnTimeHi) }

\* the outcomes of the draws of lines 271-281: no resample, or r and the delay
\* drawn from the band of the status r selects
ResampleDraws ==
    { [fire |-> FALSE, r |-> 99, d |-> 0] }
    \cup UNION { { [fire |-> TRUE, r |-> r, d |-> d] :
                     d \in RandInt(Band(StatusOf(r))[1], Band(StatusOf(r))[2]) } :
                 r \in RandomR }

\* the draw of line 70: the passenger exchange is drawn only when the bus
\* reaches the next waypoint
ChangeDraws(b, path, delta) ==
    IF Advances(b, path, delta) THEN RandInt(ChangeLo, ChangeHi) ELSE {0}

\* the draws one iteration of update()'s loop makes for bus b
Draws(b, path, delta) ==
    { [change |-> c, fire |-> f.fire, r |-> f.r, d |-> f.d] :
        c \in ChangeDraws(b, path, delta),
        f \in ResampleDraws }

\* a loop body that puts a bus that arrived at a waypoint on some route of the catalog
UpdateBusRebinds(b, path, delta, dr) ==
    LET b2 == Resample(UpdatePosition(b, path, delta, dr.change), dr.fire, dr.r, dr.d)
    IN  IF b2.current_stop_index # b.current_stop_index
        THEN [ b2 EXCEPT !.route = CHOOSE r \in DOMAIN routes : TRUE,
                         !.current_stop_index = 0 ]
        ELSE b2

\* the body of update()'s loop for one bus (lines 267-281)
UpdateBus(b, path, delta, dr) ==
    Resample(UpdatePosition(b, path, delta, dr.change), dr.fire, dr.r, dr.d)

---------------------------------------------------------------------------
(* Construction: TransportSimulation.__init__, load_real_data, _init_mock_data *)

Pt(la, lo) == [lat |-> la, lon |-> lo]

\* a two-stop route: both segments 0.0001 degree long
PathA == << Pt(0, 0), Pt(0, 1) >>

\* a four-stop route around a rectangle: segments of 0.0002, 0.0001, 0.0002, 0.0001 degree
PathB == << Pt(0, 0), Pt(0, 2), Pt(1, 2), Pt(1, 0) >>

\* the topologies the model loads: one route, or two
Catalogs ==
    { [r \in {"A"} |-> PathA],
      [r \in {"B"} |-> PathB],
      [r \in {"A", "B"} |-> IF r = "A" THEN PathA ELSE PathB] }

\* lines 206-208 and 214-215: Bus(b_id, route) with a randomized start index
LoadedBus(r_id, n, path, idx, occ) ==
    [ NewBus(<<r_id, n>>, r_id, path, occ) EXCEPT !.current_stop_index = idx ]

\* start indices drawn up to len(route.path) instead of len(route.path) - 2
StartIndicesToLen(path) == RandInt(0, Len(path))

\* the start indices random.randint(0, max(0, len(route.path) - 2)) draws
StartIndices(path) == RandInt(0, Max(0, Len(path) - 2))

\* the buses load_real_data may put on one route: Bus 1, and Bus 2 by chance
RouteBuses(r_id, path) ==
    LET B1 == { LoadedBus(r_id, 1, path, i, o) :
                  i \in StartIndices(path), o \in RandInt(InitOccLo, InitOccHi) }
        B2 == { LoadedBus(r_id, 2, path, i, o) :
                  i \in StartIndices(path), o \in RandInt(InitOccLo, InitOccHi) }
    IN  { <<b>> : b \in B1 } \cup { <<b1, b2>> : b1 \in B1, b2 \in B2 }

\* lines 201-216: the fleets load_real_data may build over a catalog, in the
\* insertion order of self.buses
RealFleets(cat) ==
    IF DOMAIN cat = {"A", "B"}
    THEN { fa \o fb : fa \in RouteBuses("A", cat["A"]), fb \in RouteBuses("B", cat["B"]) }
    ELSE UNION { RouteBuses(r, cat[r]) : r \in DOMAIN cat }

\* the built-in topology on the model's grid: route R-5A, four stops, every
\* segment 0.001 degree long (ten seconds on time)
PathM == << Pt(0, 0), Pt(0, 10), Pt(10, 10), Pt(10, 0) >>

MockCatalog == [r \in {"R-5A"} |-> PathM]

\* line 162 and line 248: self.route_stats = {}
NoStats == << >>

\* the object has no attribute route_stats: __init__ does not set it
Undefined == "undefined" :> TRUE

\* lines 251-254: the two buses of route R-5A, BUS-103 starting mid-way
MockFleets ==
    { << NewBus("BUS-101", "R-5A", PathM, o1),
         [ NewBus("BUS-103", "R-5A", PathM, o3) EXCEPT !.progress_to_next = One \div 2 ] >> :
        o1 \in RandInt(InitOccLo, InitOccHi), o3 \in RandInt(InitOccLo, InitOccHi) }

\* routes R-12B and R-47C of the built-in topology on the model's grid: three
\* stops each, two segments of 0.0005 degree and the way back of 0.001 degree
PathR12B == << Pt(20, 0), Pt(20, 5), Pt(20, 10) >>

PathR47C == << Pt(30, 0), Pt(30, 5), Pt(30, 10) >>

\* lines 225-247: the three routes of _init_mock_data
BuiltInCatalog ==
    [ r \in {"R-5A", "R-12B", "R-47C"} |->
        IF r = "R-5A" THEN PathM ELSE IF r = "R-12B" THEN PathR12B ELSE PathR47C ]

\* the initial occupancies the model draws for the built-in fleet: the two ends
\* of random.randint(10, 50) and a value in between
InitOccupancies == RandInt(InitOccLo, InitOccHi) \cup {InitOccLo + 1}

\* lines 251-256: the four buses of _init_mock_data in the order of their
\* insertion, over a catalog that holds the built-in routes
BuiltInFleets(cat) ==
    { << NewBus("BUS-101", "R-5A", cat["R-5A"], o[1]),
         NewBus("BUS-102", "R-12B", cat["R-12B"], o[2]),
         [ NewBus("BUS-103", "R-5A", cat["R-5A"], o[3]) EXCEPT !.progress_to_next = One \div 2 ],
         NewBus("BUS-201", "R-47C", cat["R-47C"], o[4]) >> :
        o \in [1..4 -> InitOccupancies] }

\* lines 162-199: the route_stats load_real_data may build: none, revenue and
\* reliability of a route, only one of the two, and an entry for a route ("Z")
\* that the catalog does not hold
LoadedStats ==
    { NoStats,
      "A" :> ("revenue" :> 7 @@ "reliability" :> 95),
      ("A" :> ("revenue" :> 7)) @@ ("Z" :> ("revenue" :> 2)),
      ("A" :> ("reliability" :> 95)) @@ ("B" :> ("revenue" :> 3 @@ "reliability" :> 90)) }

\* _init_data (lines 89-96): a catalog with the fleet load_real_data builds
\* over it, or the built-in ones when loading fails
Constructions ==
    UNION { { <<cat, fleet>> : fleet \in RealFleets(cat) } : cat \in Catalogs }
    \cup { <<MockCatalog, fleet>> : fleet \in MockFleets }

---------------------------------------------------------------------------
(* The readers: get_all_buses, get_kpis, get_route_analytics.  Numbers with  *)
(* one decimal are counted in tenths, utilization_score in hundredths.       *)

\* dict.get(key, default)
Get(d, key, default) == IF key \in DOMAIN d THEN d[key] ELSE default

\* sum(f(x) for x in xs) over a sequence of integers
RECURSIVE Sum(_)
Sum(xs) == IF xs = << >> THEN 0 ELSE Head(xs) + Sum(Tail(xs))

\* round(num / den, ndigits) with num / den counted in units of the last digit
\* kept: the nearest integer, a tie going to the even one.  Python rounds the
\* double num / den; for the divisors the model has (1 to 4 buses) a tie is a
\* binary fraction, which the double holds exactly.
RoundHalfEven(num, den) ==
    LET q == num \div den
        r == num % den
    IN  IF 2 * r < den THEN q
        ELSE IF 2 * r > den THEN q + 1
        ELSE IF q % 2 = 0 THEN q ELSE q + 1

\* the object a returned entry is: 0 for a dict of its own (the literal of
\* lines 285-295 copies numbers and strings), k for the k-th Bus object itself
EntryIsBus(b, k) == k

EntryAlias(b, k) == 0

\* lines 285-295: the entry of bus b, the k-th of the fleet; timestamp is not
\* modelled (the model has no wall clock), speed is never written after
\* Bus.__init__
EntryOf(b, k) ==
    [ alias            |-> EntryAlias(b, k),
      bus_id           |-> b.bus_id,
      route_id         |-> b.route,
      lat              |-> b.lat,
      lon              |-> b.lon,
      speed            |-> 0,
      delay_prediction |-> b.delay_minutes,
      status           |-> b.status,
      occupancy        |-> b.occupancy ]

\* get_all_buses (lines 283-297): the list built over self.buses.values()
AllBuses(fleet) == [ k \in 1..Len(fleet) |-> EntryOf(fleet[k], k) ]

\* avg_occ of line 305, in tenths, with the floor division total_occ // total_buses
AvgOccupancyFloorDiv(total_occ, total_buses) ==
    IF total_buses > 0 THEN 10 * (total_occ \div total_buses) ELSE 0

\* avg_occ of line 305, in tenths
AvgOccupancy(total_occ, total_buses) ==
    IF total_buses > 0 THEN RoundHalfEven(10 * total_occ, total_buses) ELSE 0

\* the values of a dict, in a sequence
RECURSIVE Values(_)
Values(d) ==
    IF DOMAIN d = {} THEN << >>
    ELSE LET key == CHOOSE x \in DOMAIN d : TRUE
         IN  << d[key] >> \o Values([x \in DOMAIN d \ {key} |-> d[x]])

\* get_kpis (lines 299-318)
Kpis(catalog, stats, fleet) ==
    LET total_buses == Len(fleet)
        delayed     == Cardinality({ k \in 1..Len(fleet) : fleet[k].status # "on-time" })
        total_occ   == Sum([ k \in 1..Len(fleet) |-> fleet[k].occupancy ])
        revenues    == Values([ r \in DOMAIN stats |-> Get(stats[r], "revenue", 0) ])
    IN  [ active_buses  |-> total_buses,
          total_routes  |-> Cardinality(DOMAIN catalog),
          delayed_buses |-> delayed,
          avg_occupancy |-> AvgOccupancy(total_occ, total_buses),
          total_revenue |-> IF stats = Undefined THEN 0 ELSE Sum(revenues) ]

\* the m of 0..99 for which round((m + 0.5) / 100, 2) is (m + 1) / 100: the
\* double nearest to (m + 0.5) / 100 lies above the tie, or on it with m odd
UtilTieRoundsUp ==
    {0, 2, 3, 5, 6, 8, 9, 11, 13, 16, 19, 22, 25, 26, 27, 31, 32, 33, 37, 38, 39, 40,
     44, 45, 46, 50, 51, 52, 53, 54, 55, 63, 64, 65, 66, 67, 68, 75, 76, 77, 78, 79, 80,
     87, 88, 89, 90, 91, 92, 93}

\* round(min(1.0, avg_occupancy / 100), 2) of line 343, in hundredths, for the
\* occupancies total of count buses (one or two on a route)
Utilization(total, count) ==
    LET m == total \div count
    IN  IF total % count = 0 THEN Min(100, m)
        ELSE IF m \in UtilTieRoundsUp THEN m + 1 ELSE m

\* line 328: the reliability of a route, with no default of its own
ReliabilityNoDefault(stats) == Get(stats, "reliability", 0)

\* line 328: reliability = stats.get('reliability', 100.0)
Reliability(stats) == Get(stats, "reliability", 100)

\* the k with fleet[k] on route r_id, in the order of the fleet (line 323)
BusesOnRoute(fleet, r_id) == SelectSeq(fleet, LAMBDA b : b.route = r_id)

\* lines 323-346: the entry of route r_id
RouteEntry(r_id, stats, fleet) ==
    LET buses_on_route == BusesOnRoute(fleet, r_id)
        n              == Len(buses_on_route)
        st             == Get(stats, r_id, << >>)
        delays         == Sum([ k \in 1..n |-> buses_on_route[k].delay_minutes ])
        occs           == Sum([ k \in 1..n |-> buses_on_route[k].occupancy ])
    IN  [ route_id          |-> r_id,
          avg_delay         |-> IF n > 0 THEN RoundHalfEven(10 * delays, n) ELSE 0,
          total_passengers  |-> IF n > 0 THEN (10 * occs) \div n ELSE 0,
          utilization_score |-> IF n > 0 THEN Utilization(occs, n) ELSE 0,
          revenue           |-> Get(st, "revenue", 0),
          reliability       |-> Reliability(st) ]

\* an analytics loop that skips the routes without a bus
RECURSIVE RouteAnalyticsSkipping(_, _, _)
RouteAnalyticsSkipping(ids, stats, fleet) ==
    IF ids = {} THEN << >>
    ELSE LET r_id == CHOOSE x \in ids : TRUE
         IN  (IF Len(BusesOnRoute(fleet, r_id)) > 0
              THEN << RouteEntry(r_id, stats, fleet) >> ELSE << >>)
             \o RouteAnalyticsSkipping(ids \ {r_id}, stats, fleet)

\* get_route_analytics (lines 320-347): the loop over self.routes.items() for
\* the routes ids that are left, appending one entry for each
RECURSIVE RouteAnalytics(_, _, _)
RouteAnalytics(ids, stats, fleet) ==
    IF ids = {} THEN << >>
    ELSE LET r_id == CHOOSE x \in ids : TRUE
         IN  << RouteEntry(r_id, stats, fleet) >> \o RouteAnalytics(ids \ {r_id}, stats, fleet)

\* line 326 sets a default into route_stats for every route it looks up
StatsAfterSetDefault(stats, ids) ==
    [ r \in DOMAIN stats \cup ids |-> IF r \in DOMAIN stats THEN stats[r] ELSE << >> ]

\* route_stats after the lookups of line 326 for the routes ids: dict.get
\* leaves the dict as it is
StatsAfterGet(stats, ids) == stats

---------------------------------------------------------------------------
(* Initial states *)

\* the operations of the program the model has steps for
Operations ==
    {"construct", "load_real_data", "init_mock_data", "create_task", "stop", "run", "update",
     "get_all_buses", "get_kpis", "get_route_analytics", "modify_snapshot",
     "startup", "shutdown", "scheduler_stop", "await_sim_task",
     "scheduler.start", "scheduler.stop", "scheduler.stop returned",
     "loop body", "loop returned", "loop cancelled",
     "log_event", "get_audit_logs"}

\* the places of _init_data: load_real_data before its loop over the routes of
\* the network file (lines 100-126), inside that loop (129-145), after the
\* statistics were loaded (149-199), inside the loop that creates the buses
\* (203-216), and the end of the construction; then the places of lifespan
\* (main.py): at its yield (line 43), after line 47, after the try of lines
\* 49-53, at its end (line 59), and left by an exception
Phases ==
    {"network", "routes", "stats", "buses", "done",
     "serving", "stopping", "scheduler_stopped", "complete", "failed"}

TypeOK ==
    /\ running \in BOOLEAN
    /\ pc \in [Tasks -> {"idle", "ready", "update", "resample", "sleep", "done"}]
    /\ cursor \in [Tasks -> 0..Len(buses)]
    /\ cpu \in {0} \cup Tasks
    /\ ticks \in 0..Max(MaxTicks, MaxReadTicks)
    /\ resamples \in 0..MaxResamples
    /\ stopReq \in BOOLEAN
    /\ stale \subseteq Tasks
    /\ event \subseteq 1..Len(buses)
    /\ op \in Operations
    /\ phase \in Phases
    /\ since \in Int /\ since >= -1
    /\ \A k \in 1..Len(buses) :
          /\ buses[k].route \in DOMAIN routes
          /\ buses[k].status \in Statuses

\* no reader was called yet
NoResult == [of |-> "none", value |-> << >>]

\* BackgroundTaskScheduler.__init__ (background_tasks.py lines 14-17): no
\* task, not running; and an audit log file without a line
InitServices ==
    /\ scheduler = [running |-> FALSE, tasks |-> {}]
    /\ jobs = [j \in {} |-> "ready"]
    /\ stop_waits = [pending |-> FALSE, tasks |-> {}]
    /\ audit_log = << >>

\* TransportSimulation.__init__ (lines 83-87); no task exists yet
InitClock ==
    /\ phase = "done"
    /\ running = FALSE
    /\ pc = [t \in Tasks |-> "idle"]
    /\ cursor = [t \in Tasks |-> 0]
    /\ cpu = 0
    /\ ticks = 0
    /\ resamples = 0
    /\ stopReq = FALSE
    /\ stale = {}
    /\ event = {}
    /\ op = "construct"
    /\ result = NoResult
    /\ seen = NoResult
    /\ since = -1
    /\ InitServices

\* the program after construction fell back to the built-in topology, with one
\* bus at each end of the range of its initial occupancy
Init ==
    /\ InitClock
    /\ routes = MockCatalog
    /\ route_stats = NoStats
    /\ buses \in MockFleets
    /\ buses[1].occupancy = InitOccLo
    /\ buses[2].occupancy = InitOccHi

\* a fleet of one bus: what load_real_data builds over a catalog of one route
\* when the chance of Bus 2 fails, and BUS-103 of the built-in fleet on its
\* own (the buses do not interact)
InitOneBus ==
    /\ InitClock
    /\ \/ \E cat \in Catalogs : \E fleet \in RealFleets(cat) :
             /\ Len(fleet) = 1
             /\ routes = cat
             /\ buses = fleet
       \/ \E fleet \in MockFleets :
             /\ routes = MockCatalog
             /\ buses = << fleet[2] >>
    /\ route_stats = NoStats

\* the fleets under ticks and readers: the built-in one after load_real_data
\* failed at its start, the built-in one after load_real_data failed with one
\* route loaded, no bus at all (no route of the network file has two
\* waypoints), and a loaded fleet of one bus on each of two routes with
\* statistics that name two routes
InitRead ==
    /\ InitClock
    /\ \/ /\ routes = BuiltInCatalog
          /\ route_stats = NoStats
          /\ buses \in BuiltInFleets(routes)
          /\ buses[1].occupancy = InitOccLo + 1
          /\ buses[2].occupancy = InitOccLo + 1
          /\ buses[3].occupancy = InitOccLo
       \/ /\ routes = ("A" :> PathA) @@ BuiltInCatalog
          /\ route_stats = NoStats
          /\ buses \in BuiltInFleets(routes)
          /\ \A k \in 1..4 : buses[k].occupancy = InitOccHi
       \/ /\ routes = << >>
          /\ route_stats \in LoadedStats
          /\ buses = << >>
       \/ /\ routes = [r \in {"A", "B"} |-> IF r = "A" THEN PathA ELSE PathB]
          /\ route_stats \in { s \in LoadedStats : Cardinality(DOMAIN s) = 2 }
          /\ buses \in RealFleets(routes)
          /\ Len(buses) = 2
          /\ buses[1].occupancy = InitOccLo
          /\ buses[2].occupancy = InitOccHi

---------------------------------------------------------------------------
(* The construction step by step: __init__, load_real_data and the fallback *)

\* TransportSimulation.__init__ (lines 84-87), before _init_data: no route,
\* no bus, no attribute route_stats
InitConstruct ==
    /\ phase = "network"
    /\ routes = << >>
    /\ route_stats = Undefined
    /\ buses = << >>
    /\ running = FALSE
    /\ pc = [t \in Tasks |-> "idle"]
    /\ cursor = [t \in Tasks |-> 0]
    /\ cpu = 0
    /\ ticks = 0
    /\ resamples = 0
    /\ stopReq = FALSE
    /\ stale = {}
    /\ event = {}
    /\ op = "construct"
    /\ result = NoResult
    /\ seen = NoResult
    /\ since = -1
    /\ InitServices

\* the routes of the network file that have more than one waypoint, in the
\* order of the file
FileRoutes == << "A", "B" >>

\* the path the network file gives a route
FilePath(r_id) == IF r_id = "A" THEN PathA ELSE PathB

\* lines 129-145 for one route of the file: self.routes[str(r_id)] = Route(...);
\* a file may lack any of the routes
load_route(k) ==
    /\ phase \in {"network", "routes"}
    /\ k \in 1..Len(FileRoutes)
    /\ \A j \in k..Len(FileRoutes) : FileRoutes[j] \notin DOMAIN routes
    /\ routes' = routes @@ (FileRoutes[k] :> FilePath(FileRoutes[k]))
    /\ phase' = "routes"
    /\ op' = "load_real_data"
    /\ UNCHANGED <<services, since, route_stats, buses, running, pc, cursor, cpu, ticks, resamples, stopReq,
                   stale, event, result, seen>>

\* lines 149-199: the schedule, then self.route_stats = {} and the ticketing
\* and haltwise files, whose errors are caught where they occur
load_stats ==
    /\ phase \in {"network", "routes"}
    /\ route_stats' \in LoadedStats
    /\ phase' = "stats"
    /\ op' = "load_real_data"
    /\ UNCHANGED <<services, since, routes, buses, running, pc, cursor, cpu, ticks, resamples, stopReq, stale,
                   event, result, seen>>

\* the routes of the catalog that have no bus yet
Unserved == { r \in DOMAIN routes : \A k \in 1..Len(buses) : buses[k].route # r }

\* lines 203-216 for one route, in the order of self.routes: Bus 1, and Bus 2
\* by chance
load_buses(k) ==
    /\ phase \in {"stats", "buses"}
    /\ k \in 1..Len(FileRoutes)
    /\ FileRoutes[k] \in Unserved
    /\ \A j \in 1..(k - 1) : FileRoutes[j] \notin Unserved
    /\ \E bs \in RouteBuses(FileRoutes[k], routes[FileRoutes[k]]) : buses' = buses \o bs
    /\ phase' = "buses"
    /\ op' = "load_real_data"
    /\ UNCHANGED <<services, since, routes, route_stats, running, pc, cursor, cpu, ticks, resamples, stopReq,
                   stale, event, result, seen>>

\* load_real_data returns (line 218): _init_data is over
loaded ==
    /\ phase \in {"stats", "buses"}
    /\ Unserved = {}
    /\ phase' = "done"
    /\ op' = "load_real_data"
    /\ UNCHANGED <<services, since, routes, route_stats, buses, running, pc, cursor, cpu, ticks, resamples,
                   stopReq, stale, event, result, seen>>

\* load_real_data raises where it stands; lines 93-96 catch the exception and
\* call _init_mock_data (lines 220-256), which assigns its three routes and its
\* four buses into self.routes and self.buses and sets self.route_stats = {}
init_mock_data ==
    /\ phase \in {"network", "routes", "stats", "buses"}
    /\ routes' = BuiltInCatalog @@ routes
    /\ route_stats' = NoStats
    /\ \E fleet \in BuiltInFleets(BuiltInCatalog) : buses' = buses \o fleet
    /\ phase' = "done"
    /\ op' = "init_mock_data"
    /\ UNCHANGED <<services, since, running, pc, cursor, cpu, ticks, resamples, stopReq, stale, event, result,
                   seen>>

NextConstruct ==
    \/ \E k \in 1..Len(FileRoutes) : load_route(k)
    \/ load_stats
    \/ \E k \in 1..Len(FileRoutes) : load_buses(k)
    \/ loaded
    \/ init_mock_data

SpecConstruct == InitConstruct /\ [][NextConstruct]_vars

---------------------------------------------------------------------------
(* progress_to_next in double precision.  A Python float is an IEEE-754      *)
(* double: 53 significant bits, every operation rounded to the nearest       *)
(* double, a tie to the one with an even last bit.  A double x with          *)
(* 2^-8 <= x < 2 is held as [hi, lo] with x = (hi * 2^30 + lo) / 2^60.       *)

Limb == 2^30

Double(hi, lo) == [hi |-> hi, lo |-> lo]

\* 0.0
DZero == Double(0, 0)

\* the spacing of the doubles around x, counted in units of 2^-60
Ulp(x) ==
    IF x.hi >= 2^30 THEN 256
    ELSE IF x.hi >= 2^29 THEN 128
    ELSE IF x.hi >= 2^28 THEN 64
    ELSE IF x.hi >= 2^27 THEN 32
    ELSE IF x.hi >= 2^26 THEN 16
    ELSE IF x.hi >= 2^25 THEN 8
    ELSE IF x.hi >= 2^24 THEN 4
    ELSE IF x.hi >= 2^23 THEN 2
    ELSE 1

\* the double nearest to the number x, a tie going to the even one
DRound(x) ==
    LET m    == Ulp(x)
        r    == x.lo % m
        down == x.lo - r
        up   == 2 * r > m \/ (2 * r = m /\ (x.lo \div m) % 2 = 1)
        lo   == IF up THEN down + m ELSE down
    IN  IF lo = Limb THEN Double(x.hi + 1, 0) ELSE Double(x.hi, lo)

\* x + y of two doubles (line 63: self.progress_to_next += step)
DAdd(x, y) ==
    LET lo == x.lo + y.lo
    IN  DRound(Double(x.hi + y.hi + (lo \div Limb), lo % Limb))

\* x >= 1.0 (line 65)
DReachedNext(x) == x.hi >= Limb

\* a double of [0, 1) on the grid of the model's positions: cut off to a
\* multiple of 1/ProgressScale
Fixed(x) == ((x.hi \div 2^10) * ProgressScale) \div 2^20

\* the lengths, in units of 0.0001 degree, of the segments of the two-stop
\* routes (0, 0) - (0, 0.0001 * d) of this section
SegmentLengths == {1, 3, 7, 10}

PathD(d) == << Pt(0, 0), Pt(0, d) >>

\* step of line 62 for delta_seconds = 1.0 on those segments: the double
\* (0.0001 * 1.0 * speed_factor) / dist, with dist the double
\* math.sqrt((0.0 - 0.0)**2 + (lon - 0.0)**2) of line 56 for lon = 0.0001,
\* 0.0003, 0.0007 and 0.001
StepDouble ==
    <<1, "on-time">> :> Double(1073741824, 0)                 \* 0x1.0000000000000p+0
    @@ <<1, "minor-delay">> :> Double(644245094, 429496704)   \* 0x1.3333333333333p-1
    @@ <<1, "critical-delay">> :> Double(214748364, 858993472) \* 0x1.999999999999ap-3
    @@ <<3, "on-time">> :> Double(357913941, 357913984)       \* 0x1.5555555555556p-2
    @@ <<3, "minor-delay">> :> Double(214748364, 858993472)   \* 0x1.999999999999ap-3
    @@ <<3, "critical-delay">> :> Double(71582788, 286331168) \* 0x1.1111111111112p-4
    @@ <<7, "on-time">> :> Double(153391689, 153391712)       \* 0x1.2492492492493p-3
    @@ <<7, "minor-delay">> :> Double(92035013, 521531744)    \* 0x1.5f15f15f15f16p-4
    @@ <<7, "critical-delay">> :> Double(30678337, 889671800) \* 0x1.d41d41d41d41ep-6
    @@ <<10, "on-time">> :> Double(107374182, 429496736)      \* 0x1.999999999999ap-4
    @@ <<10, "minor-delay">> :> Double(64424509, 472446400)   \* 0x1.eb851eb851eb8p-5
    @@ <<10, "critical-delay">> :> Double(21474836, 515396076) \* 0x1.47ae147ae147bp-6

\* Bus.update_position(1.0) with progress_to_next a double; lat and lon are
\* kept on the grid of the model's positions
UpdatePositionDouble(b, path, change) ==
    LET n    == Len(path)
        i    == b.current_stop_index
        ni   == NextIndex(i, n)
        dist == Dist(At(path, i), At(path, ni))
        acc  == DAdd(b.progress_to_next, StepDouble[<<dist, b.status>>])
        adv  == DReachedNext(acc)
        p2   == IF adv THEN DZero ELSE acc
        i2   == IF adv THEN ni ELSE i
        occ2 == IF adv THEN Clamp(b.occupancy + change) ELSE b.occupancy
        cur  == At(path, i2)
        nxt  == At(path, NextIndex(i2, n))
    IN  [ b EXCEPT !.progress_to_next   = p2,
                   !.current_stop_index = i2,
                   !.occupancy          = occ2,
                   !.lat                = Interpolate(cur.lat, nxt.lat, Fixed(p2)),
                   !.lon                = Interpolate(cur.lon, nxt.lon, Fixed(p2)) ]

\* whether update_position(1.0) advances the bus to the next waypoint
AdvancesDouble(b, path) ==
    LET i == b.current_stop_index
        dist == Dist(At(path, i), At(path, NextIndex(i, Len(path))))
    IN  DReachedNext(DAdd(b.progress_to_next, StepDouble[<<dist, b.status>>]))

\* one bus, on-time at the first waypoint of a two-stop route, as
\* load_real_data creates it
InitDouble ==
    /\ phase = "done"
    /\ \E d \in SegmentLengths : routes = ("A" :> PathD(d))
    /\ route_stats = NoStats
    /\ \E o \in RandInt(InitOccLo, InitOccHi) :
          buses = << [ LoadedBus("A", 1, routes["A"], 0, o) EXCEPT !.progress_to_next = DZero ] >>
    /\ running = FALSE
    /\ pc = [t \in Tasks |-> "idle"]
    /\ cursor = [t \in Tasks |-> 0]
    /\ cpu = 0
    /\ ticks = 0
    /\ resamples = 0
    /\ stopReq = FALSE
    /\ stale = {}
    /\ event = {}
    /\ op = "construct"
    /\ result = NoResult
    /\ seen = NoResult
    /\ since = 0
    /\ InitServices

\* update(1.0) (lines 265-281) on that fleet, in one step
update_double ==
    /\ cpu = 0
    /\ LET b    == buses[1]
           path == routes[b.route]
           adv  == AdvancesDouble(b, path)
       IN  \E change \in (IF adv THEN RandInt(ChangeLo, ChangeHi) ELSE {0}) :
           \E f \in ResampleDraws :
               LET b2 == Resample(UpdatePositionDouble(b, path, change), f.fire, f.r, f.d)
               IN  /\ f.fire => resamples < MaxResamples
                   /\ resamples' = IF f.fire THEN resamples + 1 ELSE resamples
                   /\ buses' = << b2 >>
                   /\ event' = IF f.fire THEN {1} ELSE {}
                   /\ since' = IF b2.status # "on-time" THEN -1
                               ELSE IF adv THEN 0
                               ELSE IF since >= 0 THEN since + 1
                               ELSE -1
    /\ op' = "update"
    /\ UNCHANGED <<services, phase, routes, route_stats, running, pc, cursor, cpu, ticks, stopReq, stale,
                   result, seen>>

NextDouble == update_double

SpecDouble == InitDouble /\ [][NextDouble]_vars

---------------------------------------------------------------------------
(* The event loop: main.py's lifespan and TransportSimulation.run *)

\* an update() that yields to the event loop after every bus
CpuYieldsPerBus(t, k, n) == 0

\* the task the event loop runs after task t finished the iteration for the
\* k-th of n buses: update() has no await, so t keeps running until the
\* await asyncio.sleep(1.0) that follows update()
CpuAfterBus(t, k, n) == IF k >= n THEN 0 ELSE t

\* main.py line 29: asyncio.create_task(simulation.run()); tasks are numbered
\* in the order of their creation
create_task(t) ==
    /\ cpu = 0
    /\ pc[t] = "idle"
    /\ \A u \in Tasks : u < t => pc[u] # "idle"
    /\ pc' = [pc EXCEPT ![t] = "ready"]
    /\ stopReq' = FALSE
    /\ event' = {}
    /\ op' = "create_task"
    /\ UNCHANGED <<services, since, phase, routes, route_stats, buses, running, cursor, cpu, ticks, resamples, stale,
                   result, seen>>

\* main.py line 47: simulation.running = False
stop ==
    /\ cpu = 0
    /\ running' = FALSE
    /\ stopReq' = (\E t \in Tasks : pc[t] # "idle")
    /\ stale' = stale \cup { t \in Tasks : pc[t] = "sleep" }
    /\ event' = {}
    /\ op' = "stop"
    /\ UNCHANGED <<services, since, phase, routes, route_stats, buses, pc, cursor, cpu, ticks, resamples, result, seen>>

\* line 262: update(1.0) begins its iteration over self.buses; with no bus the
\* task goes on to the await of line 263
BeginUpdate(t) ==
    /\ ticks' = ticks + 1
    /\ IF Len(buses) = 0
       THEN /\ pc' = [pc EXCEPT ![t] = "sleep"]
            /\ cpu' = 0
            /\ UNCHANGED cursor
       ELSE /\ pc' = [pc EXCEPT ![t] = "update"]
            /\ cursor' = [cursor EXCEPT ![t] = 1]
            /\ cpu' = t

\* a run() that leaves self.running as it finds it
RunKeepsRunning == running

\* the value line 259 gives self.running
RunSetsRunning == TRUE

\* the first step of a task, lines 259-262: self.running = True, the test of
\* while self.running, and the call of update(1.0)
run_start(t) ==
    /\ cpu = 0
    /\ pc[t] = "ready"
    /\ ticks < MaxTicks
    /\ running' = RunSetsRunning
    /\ IF running'
       THEN BeginUpdate(t)
       ELSE /\ pc' = [pc EXCEPT ![t] = "done"]
            /\ UNCHANGED <<cursor, cpu, ticks>>
    /\ event' = {}
    /\ op' = "run"
    /\ UNCHANGED <<services, since, phase, routes, route_stats, buses, resamples, stopReq, stale, result, seen>>

\* the sleep of line 263 is over: the test of while self.running (line 261),
\* then the call of update(1.0) or the end of the task
sleep_done(t) ==
    /\ cpu = 0
    /\ pc[t] = "sleep"
    /\ running => ticks < MaxTicks
    /\ IF running
       THEN BeginUpdate(t)
       ELSE /\ pc' = [pc EXCEPT ![t] = "done"]
            /\ UNCHANGED <<cursor, cpu, ticks>>
    /\ event' = {}
    /\ op' = "run"
    /\ UNCHANGED <<services, since, phase, routes, route_stats, buses, running, resamples, stopReq, stale, result, seen>>

\* an update() that yields to the event loop between line 267 and the random events
CpuYieldsAfterPosition(t) == 0

\* the task the event loop runs after task t executed line 267 for a bus:
\* there is no await between update_position and the random events
CpuAfterPosition(t) == t

\* line 267 for the bus under the cursor: bus.update_position(delta_seconds)
bus_update_position(t) ==
    /\ cpu = t
    /\ pc[t] = "update"
    /\ LET k == cursor[t]
           b == buses[k]
       IN  \E change \in ChangeDraws(b, routes[b.route], 1) :
               buses' = [buses EXCEPT ![k] = UpdatePosition(b, routes[b.route], 1, change)]
    /\ pc' = [pc EXCEPT ![t] = "resample"]
    /\ cpu' = CpuAfterPosition(t)
    /\ event' = {}
    /\ op' = "update"
    /\ UNCHANGED <<services, since, phase, routes, route_stats, running, cursor, ticks, resamples, stopReq, stale,
                   result, seen>>

\* lines 271-281 for the bus under the cursor: the random events; after the
\* last bus, line 263: await asyncio.sleep(1.0)
bus_resample(t) ==
    /\ cpu = t
    /\ pc[t] = "resample"
    /\ LET k == cursor[t]
           n == Len(buses)
       IN  /\ \E f \in ResampleDraws :
                 /\ buses' = [buses EXCEPT ![k] = Resample(buses[k], f.fire, f.r, f.d)]
                 /\ f.fire => resamples < MaxResamples
                 /\ resamples' = IF f.fire THEN resamples + 1 ELSE resamples
                 /\ event' = IF f.fire THEN {k} ELSE {}
           /\ IF k >= n
              THEN /\ pc' = [pc EXCEPT ![t] = "sleep"]
                   /\ cursor' = [cursor EXCEPT ![t] = 0]
              ELSE /\ pc' = [pc EXCEPT ![t] = "update"]
                   /\ cursor' = [cursor EXCEPT ![t] = k + 1]
           /\ cpu' = CpuAfterBus(t, k, n)
    /\ op' = "update"
    /\ UNCHANGED <<services, since, phase, routes, route_stats, running, ticks, stopReq, stale, result, seen>>

\* a request handler that reads the fleet (routers/live.py, dashboard.py,
\* analytics.py, ai.py, reports.py): a coroutine of the same event loop, with
\* no await between its reads of simulation.buses
read(reader) ==
    /\ cpu = 0
    /\ op' = reader
    /\ event' = {}
    /\ UNCHANGED <<services, since, phase, routes, route_stats, buses, running, pc, cursor, cpu, ticks, resamples,
                   stopReq, stale, result, seen>>

\* the values of delta_seconds the model passes to a direct call of update()
Deltas == {0, 1, 2}

\* the fleets and the sets of resampled buses that update(delta_seconds) can
\* leave behind: lines 266-281 over the buses bs, whose first one is the
\* (k+1)-th of the fleet, with the resample firing for at most budget buses
RECURSIVE Updated(_, _, _, _)
Updated(bs, k, delta, budget) ==
    IF bs = << >> THEN { [fleet |-> << >>, fired |-> {}] }
    ELSE UNION {
           { [fleet |-> <<UpdateBus(Head(bs), routes[Head(bs).route], delta, dr)>> \o rest.fleet,
              fired |-> (IF dr.fire THEN {k + 1} ELSE {}) \cup rest.fired] :
               rest \in Updated(Tail(bs), k + 1, delta, IF dr.fire THEN budget - 1 ELSE budget) } :
           dr \in { x \in Draws(Head(bs), routes[Head(bs).route], delta) : x.fire => budget > 0 } }

\* TransportSimulation.update(delta_seconds) (lines 265-281) called directly:
\* the method has no await, the whole iteration is one step
update_call(delta) ==
    /\ cpu = 0
    /\ \E u \in Updated(buses, 0, delta, Len(buses)) :
          /\ buses' = u.fleet
          /\ event' = u.fired
    /\ op' = "update"
    /\ UNCHANGED <<services, since, phase, routes, route_stats, running, pc, cursor, cpu, ticks, resamples, stopReq,
                   stale, result, seen>>

\* a returned list after the fleet changed: an entry that is a dict of its own
\* stays as it is, an entry that is a Bus object shows the bus as it is now
Refreshed(res, fleet) ==
    IF res.of = "get_all_buses"
    THEN [ res EXCEPT !.value =
             [ k \in DOMAIN res.value |->
                 IF res.value[k].alias = 0 THEN res.value[k]
                 ELSE EntryOf(fleet[res.value[k].alias], res.value[k].alias) ] ]
    ELSE res

\* update(1.0) as the loop calls it (line 262), in one step
tick ==
    /\ cpu = 0
    /\ ticks < MaxReadTicks
    /\ ticks' = ticks + 1
    /\ \E u \in Updated(buses, 0, 1, MaxResamples - resamples) :
          /\ resamples' = resamples + Cardinality(u.fired)
          /\ buses' = u.fleet
          /\ event' = u.fired
    /\ result' = Refreshed(result, buses')
    /\ op' = "update"
    /\ UNCHANGED <<services, since, phase, routes, route_stats, running, pc, cursor, cpu, stopReq, stale, seen>>

\* get_all_buses() (lines 283-297), called by a request handler
get_all_buses ==
    /\ cpu = 0
    /\ result' = [of |-> "get_all_buses", value |-> AllBuses(buses)]
    /\ seen' = result'
    /\ event' = {}
    /\ op' = "get_all_buses"
    /\ UNCHANGED <<services, since, phase, routes, route_stats, buses, running, pc, cursor, cpu, ticks, resamples,
                   stopReq, stale>>

\* get_kpis() (lines 299-318)
get_kpis ==
    /\ cpu = 0
    /\ result' = [of |-> "get_kpis", value |-> Kpis(routes, route_stats, buses)]
    /\ seen' = result'
    /\ event' = {}
    /\ op' = "get_kpis"
    /\ UNCHANGED <<services, since, phase, routes, route_stats, buses, running, pc, cursor, cpu, ticks, resamples,
                   stopReq, stale>>

\* get_route_analytics() (lines 320-347)
get_route_analytics ==
    /\ cpu = 0
    /\ result' = [of |-> "get_route_analytics",
                  value |-> RouteAnalytics(DOMAIN routes, route_stats, buses)]
    /\ seen' = result'
    /\ route_stats' = StatsAfterGet(route_stats, DOMAIN routes)
    /\ event' = {}
    /\ op' = "get_route_analytics"
    /\ UNCHANGED <<services, since, phase, routes, buses, running, pc, cursor, cpu, ticks, resamples, stopReq, stale>>

\* the entries of a returned list its caller writes to
ModifiedEntries == {1}

\* the caller of get_all_buses() sets occupancy of an entry of the list it
\* holds to -1: a write to a dict of its own, or to the Bus object the entry is
modify_snapshot(k) ==
    /\ cpu = 0
    /\ result.of = "get_all_buses"
    /\ k \in DOMAIN result.value
    /\ result.value[k].occupancy # -1
    /\ buses' = IF result.value[k].alias = 0 THEN buses
                ELSE [buses EXCEPT ![result.value[k].alias].occupancy = -1]
    /\ result' = [result EXCEPT !.value[k].occupancy = -1]
    /\ seen' = result'
    /\ event' = {}
    /\ op' = "modify_snapshot"
    /\ UNCHANGED <<services, since, phase, routes, route_stats, running, pc, cursor, cpu, ticks, resamples, stopReq,
                   stale>>

---------------------------------------------------------------------------
(* The lifespan of the application (main.py lines 12-59) around the loop     *)

\* the names bound where line 55 runs: the parameter of lifespan, the imports
\* of main.py and of lifespan, and the names main.py defines; the task is kept
\* as the attribute app.state.sim_task (line 29), not under a name
LifespanNames ==
    {"app", "FastAPI", "CORSMiddleware", "load_dotenv", "os", "asynccontextmanager", "asyncio",
     "simulation", "lifespan", "initialize_models", "scheduler", "read_root", "health_check"}

\* lines 28-43: the task of simulation.run() is created and lifespan yields
lifespan_startup ==
    /\ cpu = 0
    /\ phase = "done"
    /\ pc[1] = "idle"
    /\ pc' = [pc EXCEPT ![1] = "ready"]
    /\ phase' = "serving"
    /\ stopReq' = FALSE
    /\ event' = {}
    /\ op' = "startup"
    /\ UNCHANGED <<services, since, routes, route_stats, buses, running, cursor, cpu, ticks, resamples, stale,
                   result, seen>>

\* lines 46-47, after the yield: simulation.running = False.  The task created
\* at line 29 has made its first step by then: the event loop runs what is
\* ready in the order it became ready
lifespan_shutdown ==
    /\ cpu = 0
    /\ phase = "serving"
    /\ pc[1] # "ready"
    /\ running' = FALSE
    /\ phase' = "stopping"
    /\ stopReq' = TRUE
    /\ stale' = stale \cup { t \in Tasks : pc[t] = "sleep" }
    /\ event' = {}
    /\ op' = "shutdown"
    /\ UNCHANGED <<services, since, routes, route_stats, buses, pc, cursor, cpu, ticks, resamples, result, seen>>

\* lines 49-53: await scheduler.stop() inside try / except: pass
scheduler_stop ==
    /\ cpu = 0
    /\ phase = "stopping"
    /\ phase' = "scheduler_stopped"
    /\ event' = {}
    /\ op' = "scheduler_stop"
    /\ UNCHANGED <<services, since, routes, route_stats, buses, running, pc, cursor, cpu, ticks, resamples,
                   stopReq, stale, result, seen>>

\* lines 55-59: await sim_task.  The name is looked up first: when it is not
\* bound, NameError leaves lifespan; when it is, lifespan waits for the task
\* to be done and goes on to its end
await_sim_task ==
    /\ cpu = 0
    /\ phase = "scheduler_stopped"
    /\ IF "sim_task" \in LifespanNames
       THEN pc[1] = "done" /\ phase' = "complete"
       ELSE phase' = "failed"
    /\ event' = {}
    /\ op' = "await_sim_task"
    /\ UNCHANGED <<services, since, routes, route_stats, buses, running, pc, cursor, cpu, ticks, resamples,
                   stopReq, stale, result, seen>>

\* a step of a task of simulation.run()
LoopStep ==
    \E t \in Tasks :
        \/ run_start(t)
        \/ bus_update_position(t)
        \/ bus_resample(t)
        \/ sleep_done(t)

NextLifespan ==
    \/ lifespan_startup
    \/ lifespan_shutdown
    \/ scheduler_stop
    \/ await_sim_task
    \/ LoopStep

\* the event loop runs every coroutine that is ready: the steps of lifespan
\* after its yield and the steps of the loop task are taken when they can be
SpecLifespan ==
    /\ Init
    /\ [][NextLifespan]_vars
    /\ WF_vars(scheduler_stop)
    /\ WF_vars(await_sim_task)
    /\ WF_vars(LoopStep)

\* the readers of the fleet
Readers == {"get_all_buses", "get_kpis", "get_route_analytics"}

Next ==
    \/ \E t \in Tasks : create_task(t)
    \/ stop
    \/ \E t \in Tasks : run_start(t)
    \/ \E t \in Tasks : bus_update_position(t)
    \/ \E t \in Tasks : bus_resample(t)
    \/ \E t \in Tasks : sleep_done(t)
    \/ \E reader \in Readers : read(reader)

Spec == Init /\ [][Next]_vars

\* one bus under direct calls of update(delta_seconds)
NextUpdate == \E delta \in Deltas : update_call(delta)

SpecUpdate == InitOneBus /\ [][NextUpdate]_vars

\* a fleet under the loop's ticks and the calls of the readers
NextRead ==
    \/ tick
    \/ get_all_buses
    \/ get_kpis
    \/ get_route_analytics
    \/ \E k \in ModifiedEntries : modify_snapshot(k)

SpecRead == InitRead /\ [][NextRead]_vars

---------------------------------------------------------------------------
(* A Bus constructed directly on a Route the caller gives (Route.__init__   *)
(* and Bus.__init__ take any list of waypoints), in a fleet of its own      *)

\* the path of the route a bus is bound to
PathOf(b) == routes[b.route]

\* a route of one waypoint
PathOne == << Pt(3, 4) >>

\* a route whose first two waypoints have identical coordinates: a segment of
\* length zero, then two segments of 0.0002 degree
PathZ == << Pt(0, 0), Pt(0, 0), Pt(0, 2) >>

\* the paths the caller gives: none, one waypoint, a zero-length segment, and
\* the four-stop rectangle
CallerPaths == { << >>, PathOne, PathZ, PathB }

\* Bus("BUS-X", Route("X", name, path)) (lines 10-33), the fleet holding it
InitBus ==
    /\ InitClock
    /\ \E path \in CallerPaths :
          /\ routes = [r \in {"X"} |-> path]
          /\ buses = << NewBus("BUS-X", "X", path, InitOccLo) >>
    /\ route_stats = NoStats

\* the bus under direct calls of update(delta_seconds)
NextBus == \E delta \in Deltas : update_call(delta)

SpecBus == InitBus /\ [][NextBus]_vars

\* the bus on the route with the zero-length segment
InitTicks ==
    /\ InitClock
    /\ routes = [r \in {"X"} |-> PathZ]
    /\ buses = << NewBus("BUS-X", "X", PathZ, InitOccLo) >>
    /\ route_stats = NoStats

\* one turn of the loop of run() (lines 261-262): update(1.0) over a fleet of
\* one bus, lines 266-281 for that bus
run_tick ==
    /\ cpu = 0
    /\ Len(buses) = 1
    /\ \E dr \in Draws(buses[1], PathOf(buses[1]), 1) :
          /\ buses' = << UpdateBus(buses[1], PathOf(buses[1]), 1, dr) >>
          /\ event' = IF dr.fire THEN {1} ELSE {}
    /\ op' = "update"
    /\ UNCHANGED <<services, since, phase, routes, route_stats, running, pc, cursor, cpu, ticks, resamples, stopReq,
                   stale, result, seen>>

NextTicks == run_tick

\* the loop repeats its turn as long as it runs
SpecTicks == InitTicks /\ [][NextTicks]_vars /\ WF_vars(run_tick)

---------------------------------------------------------------------------
(* BackgroundTaskScheduler (services/background_tasks.py).  The calls of    *)
(* start() and stop() are made one after the other: none is made while a    *)
(* call of stop() waits in its gather.                                      *)

\* the four loops start() creates a task for (lines 126-129)
Loops ==
    {"feature_recomputation", "demand_forecast_refresh", "anomaly_detection_scan",
     "model_performance_monitoring"}

\* the number of calls of start() made so far
Starts == Cardinality({ j[1] : j \in DOMAIN jobs })

\* asyncio.create_task(...): a task that has not run yet
NewJob == [at |-> "ready", cancel |-> FALSE]

\* start() (lines 118-135) up to its await: self.running = True, and
\* self.tasks is replaced by the list of four new tasks
scheduler_start ==
    /\ ~stop_waits.pending
    /\ Starts < MaxStarts
    /\ LET created == { <<Starts + 1, l>> : l \in Loops }
       IN  /\ scheduler' = [running |-> TRUE, tasks |-> created]
           /\ jobs' = [j \in DOMAIN jobs \cup created |->
                         IF j \in created THEN NewJob ELSE jobs[j]]
    /\ op' = "scheduler.start"
    /\ UNCHANGED <<simulation, stop_waits, audit_log>>

\* the tasks of self.tasks all are done
TasksDone(tasks) == \A j \in tasks : jobs[j].at = "done"

\* stop() (lines 137-149) up to its await: self.running = False and
\* task.cancel() for each task of self.tasks; gather over tasks that are done
\* (or over no task) does not wait
scheduler_stop_call ==
    /\ ~stop_waits.pending
    /\ scheduler' = [scheduler EXCEPT !.running = FALSE]
    /\ jobs' = [j \in DOMAIN jobs |->
                  IF j \in scheduler.tasks /\ jobs[j].at # "done"
                  THEN [jobs[j] EXCEPT !.cancel = TRUE]
                  ELSE jobs[j]]
    /\ IF TasksDone(scheduler.tasks)
       THEN /\ op' = "scheduler.stop returned"
            /\ UNCHANGED stop_waits
       ELSE /\ op' = "scheduler.stop"
            /\ stop_waits' = [pending |-> TRUE, tasks |-> scheduler.tasks]
    /\ UNCHANGED <<simulation, audit_log>>

\* lines 147-149: the gather of stop() is over, stop() returns
scheduler_stop_return ==
    /\ stop_waits.pending
    /\ TasksDone(stop_waits.tasks)
    /\ stop_waits' = [pending |-> FALSE, tasks |-> {}]
    /\ op' = "scheduler.stop returned"
    /\ UNCHANGED <<simulation, scheduler, jobs, audit_log>>

\* a step of the task of one loop (lines 19-40, 42-62, 64-85, 87-116), from
\* its start or from its sleep: CancelledError when it was cancelled (the
\* except Exception of the body does not surround the sleep); otherwise the
\* test of while self.running, then the body and the next sleep, or the return
loop_step(j) ==
    /\ jobs[j].at \in {"ready", "sleep"}
    /\ IF jobs[j].cancel
       THEN /\ jobs' = [jobs EXCEPT ![j].at = "done"]
            /\ op' = "loop cancelled"
       ELSE IF scheduler.running
       THEN /\ jobs' = [jobs EXCEPT ![j].at = "sleep"]
            /\ op' = "loop body"
       ELSE /\ jobs' = [jobs EXCEPT ![j].at = "done"]
            /\ op' = "loop returned"
    /\ UNCHANGED <<simulation, scheduler, stop_waits, audit_log>>

NextScheduler ==
    \/ scheduler_start
    \/ scheduler_stop_call
    \/ scheduler_stop_return
    \/ \E j \in DOMAIN jobs : loop_step(j)

SpecScheduler == Init /\ [][NextScheduler]_vars

---------------------------------------------------------------------------
(* The audit log (services/audit_service.py): log_event and get_audit_logs  *)

Usernames == {"admin", "planner"}

EventTypes == {"auth", "api"}

\* no filter: None (or the empty string) for username or event_type
NoFilter == ""

\* the values of limit the model passes; the route of routers/admin.py
\* (line 39: Query(100, le=1000)) has no lower end
Limits == 0..2

\* lines 48-57: the event log_event() writes; its timestamp is the time of the
\* call, counted as the number of the line
Event(n, event_type, username) ==
    [timestamp |-> n, event_type |-> event_type, username |-> username]

\* log_event(event_type, username, action) (lines 25-61): one line appended
log_event(event_type, username) ==
    /\ Len(audit_log) < MaxEvents
    /\ audit_log' = Append(audit_log, Event(Len(audit_log) + 1, event_type, username))
    /\ op' = "log_event"
    /\ UNCHANGED <<simulation, scheduler, jobs, stop_waits>>

\* lines 97-101: the filters, each applied only when it is given
Passes(log, username, event_type) ==
    /\ (username # NoFilter) => log.username = username
    /\ (event_type # NoFilter) => log.event_type = event_type

\* lines 90-117: the loop over the lines of the file, which appends the lines
\* that pass the filters to logs and breaks when len(logs) >= limit
RECURSIVE Scan(_, _, _, _, _)
Scan(lines, logs, limit, username, event_type) ==
    IF lines = << >> THEN logs
    ELSE IF ~Passes(Head(lines), username, event_type)
         THEN Scan(Tail(lines), logs, limit, username, event_type)
         ELSE LET more == Append(logs, Head(lines))
              IN  IF Len(more) >= limit THEN more
                  ELSE Scan(Tail(lines), more, limit, username, event_type)

\* logs[-limit:] of Python: the last limit items, all of them when limit is 0
LastItems(logs, limit) ==
    LET first == IF limit > 0 THEN Max(0, Len(logs) - limit) ELSE Min(Len(logs), -limit)
    IN  SubSeq(logs, first + 1, Len(logs))

\* reversed(...)
Reversed(xs) == [i \in 1..Len(xs) |-> xs[Len(xs) + 1 - i]]

\* get_audit_logs(limit, username, event_type) (lines 64-123)
GetAuditLogs(lines, limit, username, event_type) ==
    Reversed(LastItems(Scan(lines, << >>, limit, username, event_type), limit))

\* a call of get_audit_logs, as the route /admin/audit-logs makes it
\* (routers/admin.py lines 50-56)
get_audit_logs(limit, username, event_type) ==
    /\ result' = [of |-> "get_audit_logs",
                  value |-> GetAuditLogs(audit_log, limit, username, event_type),
                  limit |-> limit, username |-> username, event_type |-> event_type]
    /\ op' = "get_audit_logs"
    /\ UNCHANGED <<phase, routes, route_stats, buses, running, pc, cursor, cpu, ticks, resamples,
                   stopReq, stale, event, seen, since, services>>

NextAudit ==
    \/ \E t \in EventTypes, u \in Usernames : log_event(t, u)
    \/ \E limit \in Limits, u \in Usernames \cup {NoFilter}, t \in EventTypes \cup {NoFilter} :
          get_audit_logs(limit, u, t)

SpecAudit == Init /\ [][NextAudit]_vars

---------------------------------------------------------------------------
(* The claims *)

\* the loop tasks that have begun and not returned
ActiveLoops == { t \in Tasks : pc[t] \in {"update", "resample", "sleep"} }

\* the loop tasks that are inside update()
InUpdate == { t \in Tasks : pc[t] \in {"update", "resample"} }

\* C1: once running was set to False while a loop was inside its sleep and a
\* new run() task was created afterwards, the earlier loop executes update()
\* no more: it does not keep ticking alongside the new loop.
C1_RestartLeavesOneLoop ==
    (stale # {} /\ ~stopReq) => stale \cap InUpdate = {}

\* C2: in every reachable state at most one simulation loop is active; a
\* second run() started while the first is running is rejected or a no-op.
C2_AtMostOneLoop == Cardinality(ActiveLoops) <= 1

\* C3: while running was set to False after a loop task was started and no
\* task was created since, no loop executes update().
C3_NoUpdateAfterStop == stopReq => InUpdate = {}

\* C4: for every bus, in every reachable state, 0 <= progress_to_next < 1.
C4_ProgressInRange ==
    \A k \in 1..Len(buses) :
        0 <= buses[k].progress_to_next /\ buses[k].progress_to_next < ProgressScale

\* C4 witness: the bus that started mid-segment has completed its segment:
\* its progress reached 1 and was reset at the second stop.
C4_Witness ==
    \E k \in 1..Len(buses) :
        /\ buses[k].bus_id = "BUS-103"
        /\ buses[k].current_stop_index = 1
        /\ buses[k].progress_to_next = 0

\* every bus on a route with a waypoint addresses one of its waypoints
IndexValid ==
    \A k \in 1..Len(buses) :
        Len(PathOf(buses[k])) >= 1 =>
            /\ 0 <= buses[k].current_stop_index
            /\ buses[k].current_stop_index < Len(PathOf(buses[k]))

\* a bus that leaves the last waypoint of its route arrives at index 0
WrapsToZero ==
    \A k \in 1..Len(buses) :
        ( /\ buses[k].current_stop_index = Len(PathOf(buses[k])) - 1
          /\ buses'[k].current_stop_index # buses[k].current_stop_index )
        => buses'[k].current_stop_index = 0

\* C5: for every bus whose route has at least one waypoint, in every reachable
\* state 0 <= current_stop_index < len(route.path), and advancing from the
\* last waypoint wraps to index 0.
C5_IndexValidAndWraps == []IndexValid /\ [][WrapsToZero]_vars

\* C5 witness: a bus loaded at the randomized start index len - 2 = 2 of the
\* four-stop route is back on the first segment: it advanced from the last
\* waypoint and wrapped.
C5_Witness ==
    \E k \in 1..Len(buses) :
        /\ buses[k].route = "B"
        /\ buses[k].current_stop_index = 0
        /\ buses[k].progress_to_next > 0
        /\ buses[k].occupancy \notin {InitOccLo, InitOccHi}

\* C6: for every bus, in every reachable state, 0 <= occupancy <= 100.
C6_OccupancyInRange ==
    \A k \in 1..Len(buses) : 0 <= buses[k].occupancy /\ buses[k].occupancy <= 100

\* C6 witness: passenger exchanges have filled a bus to 100, the state in
\* which the next exchange is clamped.
C6_Witness ==
    \E k \in 1..Len(buses) : buses[k].occupancy = 100 /\ buses[k].current_stop_index > 0

\* C7: in every reachable state, from construction onward, (lat, lon) of each
\* bus is W[i] + (W[(i+1) mod n] - W[i]) * progress_to_next for its current
\* segment.
C7_PositionOnSegment ==
    \A k \in 1..Len(buses) :
        LET b   == buses[k]
            W   == PathOf(b)
            n   == Len(W)
            cur == W[b.current_stop_index + 1]
            nxt == W[((b.current_stop_index + 1) % n) + 1]
        IN  n >= 1 =>
              /\ b.lat = ProgressScale * cur.lat + (nxt.lat - cur.lat) * b.progress_to_next
              /\ b.lon = ProgressScale * cur.lon + (nxt.lon - cur.lon) * b.progress_to_next

\* delay_minutes of b lies in the band of its status
InBand(b) ==
    /\ b.status = "on-time" => (0 <= b.delay_minutes /\ b.delay_minutes <= 4)
    /\ b.status = "minor-delay" => (5 <= b.delay_minutes /\ b.delay_minutes <= 14)
    /\ b.status = "critical-delay" => (15 <= b.delay_minutes /\ b.delay_minutes <= 45)

\* a step that resamples or changes the status of a bus leaves its delay in
\* the band of the new status
ResampledInBand ==
    \A k \in 1..Len(buses) :
        (k \in event' \/ buses'[k].status # buses[k].status) => InBand(buses'[k])

\* C8: whenever a tick changes or resamples a bus's status, delay_minutes
\* after that tick lies in the band of the new status: on-time [0,4],
\* minor-delay [5,14], critical-delay [15,45].
C8_ResampleWithinBand == [][ResampledInBand]_vars

\* C8 witness: a tick just resampled a bus to minor-delay with the largest
\* delay of that band.
C8_Witness ==
    \E k \in event : buses[k].status = "minor-delay" /\ buses[k].delay_minutes = 14

\* a tick that leaves the status of a bus as it was leaves its delay as it was
DelayFollowsStatus ==
    \A k \in 1..Len(buses) :
        buses'[k].status = buses[k].status
            => buses'[k].delay_minutes = buses[k].delay_minutes

\* C9, as stated: for every bus and every tick in which the status is the same
\* before and after the tick, delay_minutes is unchanged by that tick.
C9_DelayOnlyAtTransition == [][DelayFollowsStatus]_vars

\* a tick changes the status or the delay of a bus only by resampling it
ChangeOnlyByResample ==
    \A k \in 1..Len(buses) :
        ( \/ buses'[k].status # buses[k].status
          \/ buses'[k].delay_minutes # buses[k].delay_minutes )
        => k \in event'

\* C9, amended: delay_minutes is re-drawn only when the tick's resample fires
\* for the bus (which may select the status the bus already has); in a tick
\* whose resample does not fire, status and delay_minutes are unchanged.
C9_DelayOnlyAtResample == [][ChangeOnlyByResample]_vars

\* C9 witness: a tick without resample has moved a bus that carries a delay
\* drawn earlier, and the delay is still there.
C9_Witness ==
    /\ event = {}
    /\ \E k \in 1..Len(buses) :
          /\ buses[k].status = "minor-delay"
          /\ buses[k].delay_minutes = 14
          /\ buses[k].route = "A"
          /\ buses[k].current_stop_index = 1
          /\ buses[k].progress_to_next = 30

\* C10: ticks are strictly sequential: a task inside update() keeps the event
\* loop until it has iterated over every bus, so no two executions of
\* update() interleave.
C10_TicksSequential ==
    /\ Cardinality(InUpdate) <= 1
    /\ \A t \in InUpdate : cpu = t

\* C10 witness: a task is in the middle of its iteration over the buses while
\* another loop task is waiting in its sleep.
C10_Witness ==
    \E t, u \in Tasks :
        /\ t # u
        /\ pc[t] = "update"
        /\ cursor[t] = 2
        /\ pc[u] = "sleep"

\* C11: no reader ever observes a bus for which the current tick has updated
\* position/current_stop_index and not yet applied that tick's status/delay
\* resample: when a reader runs, no loop task stands between line 267 and the
\* random events of a bus.
C11_ReadersSeeWholeBusUpdates ==
    op \in Readers => \A t \in Tasks : pc[t] # "resample"

\* C11 witness: a reader ran while a loop was alive, between two of its ticks,
\* after the tick before had moved and resampled a bus.
C11_Witness ==
    /\ op \in Readers
    /\ \E t \in Tasks : pc[t] = "sleep"
    /\ resamples > 0
    /\ \E k \in 1..Len(buses) : buses[k].status # "on-time" /\ buses[k].progress_to_next > 0

\* a step keeps the catalog, the buses and the route each bus is bound to
CatalogAndBindingsKept ==
    /\ routes' = routes
    /\ Len(buses') = Len(buses)
    /\ \A k \in 1..Len(buses) :
          /\ buses'[k].bus_id = buses[k].bus_id
          /\ buses'[k].route = buses[k].route

\* C12: after startup, across any sequence of ticks and read operations, the
\* set of bus ids, the set of route ids, every route's waypoint sequence and
\* every bus's route binding are unchanged.
C12_FleetAndCatalogFixed == [][CatalogAndBindingsKept]_vars

\* C12 witness: after two ticks, in which the buses of a loaded fleet arrived
\* at waypoints and exchanged passengers, a reader was called.
C12_Witness ==
    /\ ticks >= 2
    /\ op = "get_route_analytics"
    /\ Len(buses) = 2
    /\ buses[1].route = "A" /\ buses[1].occupancy # InitOccLo
    /\ buses[2].route = "B" /\ buses[2].current_stop_index = 3

\* a step of a reader leaves the fleet, the catalog and route_stats as they were
ReadersOnlyRead ==
    op' \in Readers => UNCHANGED <<buses, routes, route_stats>>

\* C13: only the tick mutates bus state: get_all_buses(), get_kpis() and
\* get_route_analytics() leave every field of every bus, the routes and
\* route_stats unchanged.
C13_ReadersMutateNothing == [][ReadersOnlyRead]_vars

\* C13 witness: get_route_analytics() has looked up the statistics of a route
\* that route_stats has no entry for, on a fleet that ticks have moved.
C13_Witness ==
    /\ op = "get_route_analytics"
    /\ ticks > 0
    /\ route_stats # NoStats
    /\ \E r \in DOMAIN routes : r \notin DOMAIN route_stats

\* the list get_all_buses() just returned has one entry per bus of the fleet,
\* in the order of the fleet, with the values of that bus
OneEntryPerBus ==
    op = "get_all_buses" =>
        /\ Len(result.value) = Len(buses)
        /\ \A k \in 1..Len(buses) :
              /\ result.value[k].bus_id = buses[k].bus_id
              /\ result.value[k].route_id = buses[k].route
              /\ result.value[k].lat = buses[k].lat
              /\ result.value[k].lon = buses[k].lon
              /\ result.value[k].status = buses[k].status
              /\ result.value[k].delay_prediction = buses[k].delay_minutes
              /\ result.value[k].occupancy = buses[k].occupancy

\* a tick leaves a returned list as it was, and a write to an entry of a
\* returned list leaves the fleet as it was
SnapshotDetached ==
    /\ op' = "update" => result' = result
    /\ op' = "modify_snapshot" => buses' = buses

\* C14: a snapshot returned by get_all_buses() is a value copy with exactly one
\* entry per bus in the fleet: ticks executed after the call do not change the
\* returned entries, and modifying the returned entries does not change any
\* bus in the fleet.
C14_SnapshotIsValueCopy == []OneEntryPerBus /\ [][SnapshotDetached]_vars

\* C14 witness: the caller wrote to the first entry of a returned list of four
\* entries, then a tick moved the buses: the list still shows the position at
\* the time of the call and the caller's write, the bus its own occupancy.
C14_Witness ==
    /\ op = "update"
    /\ result.of = "get_all_buses"
    /\ Len(result.value) = 4
    /\ result.value[1].occupancy = -1
    /\ buses[1].occupancy >= InitOccLo
    /\ result.value[1].lon # buses[1].lon
    /\ result = seen

\* C15: if loading the external topology fails (load_real_data raises at any
\* point), the construction still completes and the simulation is operable:
\* route_stats is defined and empty, the catalog is the built-in topology
\* (R-5A, R-12B, R-47C), and every bus is bound to a route of the catalog.
C15_FallbackIsBuiltInTopology ==
    (phase = "done" /\ op = "init_mock_data") =>
        /\ route_stats = NoStats
        /\ DOMAIN routes = {"R-5A", "R-12B", "R-47C"}
        /\ \A k \in 1..Len(buses) : buses[k].route \in DOMAIN routes

\* the revenue route_stats holds for a route, 0 when it holds none
RevenueEntry(r) ==
    IF r \in DOMAIN route_stats /\ "revenue" \in DOMAIN route_stats[r]
    THEN route_stats[r]["revenue"] ELSE 0

\* the reliability route_stats holds for a route, 100 when it holds none
ReliabilityEntry(r) ==
    IF r \in DOMAIN route_stats /\ "reliability" \in DOMAIN route_stats[r]
    THEN route_stats[r]["reliability"] ELSE 100

\* the sum of the revenue entries of route_stats
RevenueEntries == Sum(Values([ r \in DOMAIN route_stats |-> RevenueEntry(r) ]))

\* the sum of the occupancies of the fleet
FleetOccupancy == Sum([ k \in 1..Len(buses) |-> buses[k].occupancy ])

\* what get_kpis() just returned counts the buses, the delayed ones and the revenue
KpisCounts ==
    /\ result.value.active_buses = Len(buses)
    /\ result.value.delayed_buses
           = Cardinality({ k \in 1..Len(buses) : buses[k].status # "on-time" })
    /\ 0 <= result.value.delayed_buses
    /\ result.value.delayed_buses <= result.value.active_buses
    /\ Len(buses) = 0 => result.value.avg_occupancy = 0
    /\ result.value.total_revenue = RevenueEntries

\* C16, as stated: get_kpis() returns active_buses = number of buses,
\* delayed_buses = number of buses not on-time, avg_occupancy = the mean
\* occupancy of the fleet (0 for an empty fleet), total_revenue = the sum of the
\* revenue entries of route_stats.  avg_occupancy is counted in tenths.
C16_KpisExactMean ==
    op = "get_kpis" =>
        /\ KpisCounts
        /\ Len(buses) * result.value.avg_occupancy = 10 * FleetOccupancy

\* C16, amended: as stated, with avg_occupancy the mean occupancy rounded to
\* one decimal: the multiple of 0.1 nearest to the mean.
C16_KpisRoundedMean ==
    op = "get_kpis" =>
        /\ KpisCounts
        /\ LET off == Len(buses) * result.value.avg_occupancy - 10 * FleetOccupancy
           IN  -Len(buses) <= 2 * off /\ 2 * off <= Len(buses)

\* C16 witness: get_kpis() was called on an empty fleet, after a tick, with
\* revenue in route_stats.
C16_Witness ==
    /\ op = "get_kpis"
    /\ Len(buses) = 0
    /\ ticks > 0
    /\ result.value.avg_occupancy = 0
    /\ result.value.total_revenue > 0

\* the routes that no bus is bound to
RoutesWithoutBus == { r \in DOMAIN routes : \A k \in 1..Len(buses) : buses[k].route # r }

\* C17: get_route_analytics() returns one entry per route in the catalog; for
\* a route with no bus assigned the entry has avg_delay = 0, total_passengers
\* = 0 and utilization_score = 0 and still carries the route's revenue and
\* reliability.
C17_AnalyticsEntryPerRoute ==
    op = "get_route_analytics" =>
        /\ Len(result.value) = Cardinality(DOMAIN routes)
        /\ { result.value[i].route_id : i \in 1..Len(result.value) } = DOMAIN routes
        /\ \A i \in 1..Len(result.value) :
              result.value[i].route_id \in RoutesWithoutBus =>
                /\ result.value[i].avg_delay = 0
                /\ result.value[i].total_passengers = 0
                /\ result.value[i].utilization_score = 0
                /\ result.value[i].revenue = RevenueEntry(result.value[i].route_id)
                /\ result.value[i].reliability = ReliabilityEntry(result.value[i].route_id)

\* C17 witness: get_route_analytics() was called on a catalog that holds a
\* route with no bus, after a tick.
C17_Witness ==
    /\ op = "get_route_analytics"
    /\ ticks > 0
    /\ RoutesWithoutBus # {}
    /\ \E i \in 1..Len(result.value) : result.value[i].route_id \in RoutesWithoutBus

\* C18: a missing external statistic is never an error: get_route_analytics()
\* reports revenue 0 for a route with no revenue entry and reliability 100 for
\* a route with no reliability entry (a route that has only one of the two
\* included), and get_kpis() counts a missing revenue as 0.
C18_MissingStatsDefault ==
    /\ op = "get_route_analytics" =>
          \A i \in 1..Len(result.value) :
              LET r == result.value[i].route_id
              IN  /\ (r \notin DOMAIN route_stats \/ "revenue" \notin DOMAIN route_stats[r])
                        => result.value[i].revenue = 0
                  /\ (r \notin DOMAIN route_stats \/ "reliability" \notin DOMAIN route_stats[r])
                        => result.value[i].reliability = 100
                  /\ (r \in DOMAIN route_stats /\ "revenue" \in DOMAIN route_stats[r])
                        => result.value[i].revenue = route_stats[r]["revenue"]
                  /\ (r \in DOMAIN route_stats /\ "reliability" \in DOMAIN route_stats[r])
                        => result.value[i].reliability = route_stats[r]["reliability"]
    /\ op = "get_kpis" => result.value.total_revenue = RevenueEntries

\* C18 witness: get_route_analytics() was called with route_stats holding the
\* revenue and no reliability for one route of the catalog and nothing for
\* the other.
C18_Witness ==
    /\ op = "get_route_analytics"
    /\ DOMAIN routes = {"A", "B"}
    /\ "A" \in DOMAIN route_stats
    /\ DOMAIN route_stats["A"] = {"revenue"}
    /\ "B" \notin DOMAIN route_stats
    /\ \E i \in 1..Len(result.value) :
          /\ result.value[i].route_id = "A"
          /\ result.value[i].revenue = 7
          /\ result.value[i].reliability = 100

\* setting the flag when it is already False changes nothing of the program,
\* and setting it when no task was ever created leaves the clock stopped and
\* the fleet as it was
StopIsSafe ==
    op' = "stop" =>
        /\ ~running' 
        /\ ~running => UNCHANGED <<routes, route_stats, buses, running, pc, cursor, cpu>>
        /\ (\A t \in Tasks : pc[t] = "idle") => UNCHANGED <<buses, pc, cursor, cpu>>

\* the first step of a run() task enters the loop, whatever the flag was
StartRuns ==
    \A t \in Tasks :
        (pc[t] = "ready" /\ pc'[t] # "ready") => (running' /\ pc'[t] \in {"update", "sleep"})

\* C20: stop is idempotent and safe before start: setting the stop flag twice
\* leaves the same state as setting it once, and setting it when the clock was
\* never started leaves the clock stopped and the fleet unchanged, and does
\* not prevent a later start from running the loop.
C20_StopIdempotentAndSafe == [][StopIsSafe /\ StartRuns]_vars

\* C20 witness: the flag was set to False before any task was created.
C20_Witness ==
    /\ op = "stop"
    /\ \A t \in Tasks : pc[t] = "idle"
    /\ ~running
    /\ ticks = 0

\* ceil(a / b) for positive integers
CeilDiv(a, b) == (a + b - 1) \div b

\* a bus that has been on time since it started its segment at progress 0
\* arrives at the next waypoint in the tick whose number on that segment is
\* ceil(d / (base_rate * delta)), and in no other: d is counted in units of
\* base_rate (0.0001 degree per second) and delta is 1 second
AdvanceOnCeilTick ==
    LET b == buses[1]
        d == Dist(At(PathOf(b), 0), At(PathOf(b), 1))
    IN  (since >= 0 /\ op' = "update") =>
            ( buses'[1].current_stop_index # b.current_stop_index
              <=> since + 1 = CeilDiv(d, 1) )

\* C19: on a two-waypoint route whose segment has planar length d, a bus that
\* stays on-time and starts a segment at progress 0 advances to the next
\* waypoint on exactly tick number ceil(d / (base_rate * delta)) of that
\* segment, and not on any earlier tick.
C19_TraversalTakesCeilTicks == [][AdvanceOnCeilTick]_vars


\* step = base_rate * delta_seconds * factor / d for bus b, as the fraction
\* num / den with factor counted in fifths
StepOf(b, delta) ==
    LET W      == PathOf(b)
        i      == b.current_stop_index
        factor == IF b.status = "on-time" THEN 5
                  ELSE IF b.status = "minor-delay" THEN 3
                  ELSE 1
    IN  [num |-> delta * factor, den |-> 5 * Dist(W[i + 1], W[((i + 1) % Len(W)) + 1])]

\* progress_to_next + step < 1 for bus b
StaysOnSegment(b, delta) ==
    LET step == StepOf(b, delta)
    IN  step.den * b.progress_to_next + ProgressScale * step.num < step.den * One

\* bus c is bus b after a tick that only accumulated: progress grown by step,
\* index and occupancy kept, position interpolated at the new progress
AccumulatedOnly(b, c, delta) ==
    LET W    == PathOf(b)
        i    == b.current_stop_index
        cur  == W[i + 1]
        nxt  == W[((i + 1) % Len(W)) + 1]
        step == StepOf(b, delta)
    IN  /\ step.den * (c.progress_to_next - b.progress_to_next) = ProgressScale * step.num
        /\ c.current_stop_index = i
        /\ c.occupancy = b.occupancy
        /\ c.lat = ProgressScale * cur.lat + (nxt.lat - cur.lat) * c.progress_to_next
        /\ c.lon = ProgressScale * cur.lon + (nxt.lon - cur.lon) * c.progress_to_next

\* update_position(delta) leads from bus b to bus c: c has the progress, the
\* index, the occupancy and the position the call leaves
MovedBy(b, c, delta) ==
    \E change \in ChangeDraws(b, PathOf(b), delta) :
        LET m == UpdatePosition(b, PathOf(b), delta, change)
        IN  /\ c.progress_to_next = m.progress_to_next
            /\ c.current_stop_index = m.current_stop_index
            /\ c.occupancy = m.occupancy
            /\ c.lat = m.lat
            /\ c.lon = m.lon

\* every call update(delta) that leads from this state to the next one only
\* accumulates on every bus that stays on its segment
TickAccumulates ==
    \A delta \in Deltas : \A k \in 1..Len(buses) :
        ( /\ Len(PathOf(buses[k])) > 0
          /\ StaysOnSegment(buses[k], delta)
          /\ ~AccumulatedOnly(buses[k], buses'[k], delta) )
        => ~MovedBy(buses[k], buses'[k], delta)

\* C21: a tick that does not complete the segment only accumulates: with
\* step = base_rate * delta_seconds * factor / d, factor 1.0 for on-time, 0.6
\* for minor-delay and 0.2 for critical-delay (the status the bus has when
\* update_position runs), if progress_to_next + step < 1 then after the tick
\* progress_to_next has grown by exactly step, current_stop_index and
\* occupancy are unchanged and the position is the interpolation at the new
\* progress.
C21_PartialTickAccumulates == [][TickAccumulates]_vars

\* C21 witness: a bus on the first segment (0.0002 degree) of the four-stop
\* route made half of it on time, was resampled to minor-delay, and a tick
\* without resample added 0.3: it stands at 80% of the segment with its
\* occupancy as constructed.
C21_Witness ==
    /\ op = "update"
    /\ event = {}
    /\ \E k \in 1..Len(buses) :
          /\ PathOf(buses[k]) = PathB
          /\ buses[k].current_stop_index = 0
          /\ buses[k].status = "minor-delay"
          /\ buses[k].progress_to_next = 40
          /\ buses[k].lat = 0
          /\ buses[k].lon = 2 * 40
          /\ buses[k].occupancy = InitOccLo

\* bus c is bus b after a tick that completed the segment: progress is 0 and
\* the index is the next waypoint of the cycle
AdvancedByOne(b, c) ==
    /\ c.progress_to_next = 0
    /\ c.current_stop_index = (b.current_stop_index + 1) % Len(PathOf(b))

\* every call update(delta) that leads from this state to the next one resets
\* and advances by one waypoint every bus whose progress reaches 1
TickAdvancesByOne ==
    \A delta \in Deltas : \A k \in 1..Len(buses) :
        ( /\ Len(PathOf(buses[k])) > 0
          /\ ~StaysOnSegment(buses[k], delta)
          /\ ~AdvancedByOne(buses[k], buses'[k]) )
        => ~MovedBy(buses[k], buses'[k], delta)

\* C22: when accumulated progress reaches or exceeds 1 in a tick,
\* progress_to_next is reset to exactly 0 (any overshoot is discarded) and
\* current_stop_index advances by exactly one waypoint cyclically; a single
\* tick never advances a bus by more than one waypoint, however large the step.
C22_AdvanceResetsAndStepsOne == [][TickAdvancesByOne]_vars

\* C22 witness: a bus that was never resampled has just arrived at the third
\* waypoint of the four-stop route, after two passenger exchanges: it passed
\* the second segment (0.0001 degree), on which the step of update(1.0) is
\* 1.0 and the step of update(2.0) is 2.0, and stands there with progress 0.
C22_Witness ==
    /\ op = "update"
    /\ \E k \in 1..Len(buses) :
          /\ PathOf(buses[k]) = PathB
          /\ buses[k].current_stop_index = 2
          /\ buses[k].progress_to_next = 0
          /\ buses[k].status = "on-time"
          /\ buses[k].delay_minutes = 0
          /\ buses[k].occupancy = InitOccLo + 2 * ChangeHi

\* a step leaves the occupancy of every bus whose index it leaves, and moves
\* the occupancy of every bus whose index it changes by an exchange in
\* [-5, 10], clamped into [0, 100]
OccupancyFollowsAdvance ==
    \A k \in 1..Len(buses) :
        LET b == buses[k]
            c == buses'[k]
        IN  /\ c.current_stop_index = b.current_stop_index => c.occupancy = b.occupancy
            /\ c.current_stop_index # b.current_stop_index =>
                  \E change \in ChangeLo..ChangeHi :
                      c.occupancy = Max(0, Min(100, b.occupancy + change))

\* C23: occupancy changes only through an occupancy exchange event at a
\* segment advance: in a tick where current_stop_index does not advance,
\* occupancy is unchanged; in a tick where it advances, the new occupancy is
\* the old occupancy plus a delta in [-5, 10], clamped into [0, 100].
C23_OccupancyOnlyAtAdvance == [][OccupancyFollowsAdvance]_vars

\* C24: for a bus bound to a route with zero or one waypoints no movement
\* occurs: after any number of ticks its position equals the first waypoint
\* (or the default (0.0, 0.0) when the route has no waypoints) and its
\* current_stop_index stays 0.
C24_ShortRoutePinsBus ==
    \A k \in 1..Len(buses) :
        LET b == buses[k]
            W == PathOf(b)
        IN  /\ Len(W) = 0 => (b.current_stop_index = 0 /\ b.lat = 0 /\ b.lon = 0)
            /\ Len(W) = 1 =>
                  /\ b.current_stop_index = 0
                  /\ b.lat = ProgressScale * W[1].lat
                  /\ b.lon = ProgressScale * W[1].lon

\* C24 witness: the bus on the one-waypoint route has run through line 65 (its
\* occupancy is no longer the one it was constructed with) and is accumulating
\* progress again, in critical delay.
C24_Witness ==
    /\ op = "update"
    /\ \E k \in 1..Len(buses) :
          /\ PathOf(buses[k]) = PathOne
          /\ buses[k].occupancy # InitOccLo
          /\ buses[k].progress_to_next > 0
          /\ buses[k].status = "critical-delay"

\* bus b stands on segment i of a route of two or more waypoints, and the two
\* waypoints of the segment have identical coordinates
OnZeroSegment(b, i) ==
    LET W == PathOf(b)
    IN  /\ Len(W) >= 2
        /\ b.current_stop_index = i
        /\ W[i + 1] = W[((i + 1) % Len(W)) + 1]

\* a tick update(1.0) on a zero-length segment either brings the bus to the
\* next waypoint or adds the step of the length 0.001 (ten units of 0.0001
\* degree): 0.1 times the speed factor
ZeroSegmentStep ==
    \A k \in 1..Len(buses) :
        LET b      == buses[k]
            c      == buses'[k]
            factor == IF b.status = "on-time" THEN 5
                      ELSE IF b.status = "minor-delay" THEN 3
                      ELSE 1
        IN  OnZeroSegment(b, b.current_stop_index) =>
              \/ /\ c.current_stop_index = (b.current_stop_index + 1) % Len(PathOf(b))
                 /\ c.progress_to_next = 0
              \/ /\ c.current_stop_index = b.current_stop_index
                 /\ 5 * 10 * (c.progress_to_next - b.progress_to_next) = ProgressScale * factor

\* the bus of the fleet stands on a zero-length segment
BusOnZeroSegment ==
    \E k \in 1..Len(buses) : OnZeroSegment(buses[k], buses[k].current_stop_index)

\* the bus on a zero-length segment is on another segment some ticks later
\* (the route of the model has no two zero-length segments in a row)
LeavesZeroSegment == BusOnZeroSegment ~> ~BusOnZeroSegment

\* C25: a zero-length segment (two consecutive waypoints with identical
\* coordinates) is handled locally: a tick on such a segment raises no error,
\* uses the substitute length 0.001, and the bus is not stuck there: after
\* finitely many ticks its current_stop_index advances past the degenerate
\* segment.
C25_ZeroSegmentIsPassed == [][ZeroSegmentStep]_vars /\ LeavesZeroSegment

\* C25 witness: the bus that started on the zero-length segment has just
\* arrived at the second waypoint, in critical delay: its last ticks added
\* 0.02 each.
C25_Witness ==
    /\ op = "update"
    /\ event = {}
    /\ \E k \in 1..Len(buses) :
          /\ PathOf(buses[k]) = PathZ
          /\ buses[k].current_stop_index = 1
          /\ buses[k].progress_to_next = 0
          /\ buses[k].status = "critical-delay"
          /\ buses[k].occupancy = InitOccLo + ChangeLo

\* the number of values of the second draw r, in hundredths, that select status s
Share(s) == Cardinality({ r \in 0..99 : StatusOf(r) = s })

\* whatever the status of a bus, a resample that fires gives it the status the
\* second draw r selects, a tick can leave it in each of the three statuses,
\* and critical-delay has the smallest share of the draws
MemorylessResample ==
    /\ \A k \in 1..Len(buses) : \A r \in 0..99 :
          Resample(buses[k], TRUE, r, 0).status =
              (IF r < 10 THEN "critical-delay"
               ELSE IF r < 40 THEN "minor-delay"
               ELSE "on-time")
    /\ \A k \in 1..Len(buses) : \A s \in Statuses :
          \E dr \in Draws(buses[k], PathOf(buses[k]), 1) :
              UpdateBus(buses[k], PathOf(buses[k]), 1, dr).status = s
    /\ Share("critical-delay") < Share("minor-delay")
    /\ Share("critical-delay") < Share("on-time")

\* a step that does not resample a bus leaves its status and its delay
KeptWithoutResample ==
    \A k \in 1..Len(buses) :
        k \notin event' =>
            /\ buses'[k].status = buses[k].status
            /\ buses'[k].delay_minutes = buses[k].delay_minutes

\* C26: status transitions are memoryless and weighted: when the per-tick
\* resample fires for a bus, the new status is decided by the second draw r
\* alone (r < 0.1 critical-delay, 0.1 <= r < 0.4 minor-delay, otherwise
\* on-time), independent of the previous status, so every status is reachable
\* from every status in one tick and critical-delay has the smallest share;
\* when the resample does not fire, status and delay_minutes are unchanged.
C26_ResampleMemoryless == []MemorylessResample /\ [][KeptWithoutResample]_vars

\* C26 witness: a bus at the start of the four-stop route made 0.1 of its
\* first segment, which is the step of a bus in critical delay, and the
\* resample of that tick put it in minor-delay.
C26_Witness ==
    /\ op = "update"
    /\ \E k \in event :
          /\ buses[k].route = "B"
          /\ buses[k].current_stop_index = 0
          /\ buses[k].progress_to_next = 5
          /\ buses[k].status = "minor-delay"
          /\ buses[k].delay_minutes = MinorLo

\* C27: status and delay are always consistent: in every reachable state (from
\* construction, after any number of ticks), each bus's delay_minutes lies in
\* the band of its current status (on-time [0,4], minor-delay [5,14],
\* critical-delay [15,45]), and delay_minutes is never negative.
C27_DelayInBandOfStatus ==
    \A k \in 1..Len(buses) :
        /\ buses[k].delay_minutes >= 0
        /\ \/ buses[k].status = "on-time" /\ buses[k].delay_minutes \in 0..4
           \/ buses[k].status = "minor-delay" /\ buses[k].delay_minutes \in 5..14
           \/ buses[k].status = "critical-delay" /\ buses[k].delay_minutes \in 15..45

\* C27 witness: a bus resampled to critical-delay with the largest delay has
\* since reached another waypoint in a tick that did not resample it.
C27_Witness ==
    /\ op = "update"
    /\ event = {}
    /\ \E k \in 1..Len(buses) :
          /\ buses[k].status = "critical-delay"
          /\ buses[k].delay_minutes = CriticalHi
          /\ buses[k].progress_to_next = 0
          /\ buses[k].occupancy \notin {InitOccLo, InitOccHi}

\* C28: application shutdown waits for the simulation loop: the lifespan
\* handler sets simulation.running to False, stops the background scheduler,
\* waits for the simulation task to finish and then completes normally, so
\* shutdown always eventually completes without error and, when it has
\* completed, the simulation loop has terminated.
C28_ShutdownWaitsForLoop ==
    /\ [](phase # "failed")
    /\ [](phase = "complete" => (~running /\ \A t \in Tasks : pc[t] \in {"idle", "done"}))
    /\ (phase = "stopping") ~> (phase = "complete")

\* the tasks of the scheduler's loops that have begun or can begin and have
\* not ended
ActiveJobs == { j \in DOMAIN jobs : jobs[j].at # "done" }

\* C29: BackgroundTaskScheduler.stop() stops all background tasks: after
\* stop() completes, whatever sequence of start() and stop() calls preceded it
\* (including stop() before any start() and start() called twice), running is
\* False and none of the task loops created by any earlier start() is still
\* active or will run its body again.
C29_StopStopsEveryLoop ==
    op = "scheduler.stop returned" => (~scheduler.running /\ ActiveJobs = {})

\* the logged events that match the filters of the last call of
\* get_audit_logs, oldest first
Matching ==
    SelectSeq(audit_log, LAMBDA log :
        /\ (result.username # NoFilter => log.username = result.username)
        /\ (result.event_type # NoFilter => log.event_type = result.event_type))

\* C30: for any sequence of log_event() appends followed by
\* get_audit_logs(limit, username, event_type), the result holds at most limit
\* entries, every entry matches the given filters, the entries are ordered
\* most recent first, and when more than limit logged events match, the
\* entries returned are the most recently logged ones.
C30_AuditLogsMostRecentFirst ==
    op = "get_audit_logs" =>
        LET got == result.value
        IN  /\ Len(got) <= result.limit
            /\ \A i \in 1..Len(got) : \E k \in 1..Len(Matching) : got[i] = Matching[k]
            /\ \A i, j \in 1..Len(got) : i < j => got[i].timestamp > got[j].timestamp
            /\ Len(Matching) > result.limit =>
                  \A i \in 1..Len(got) : got[i] = Matching[Len(Matching) + 1 - i]
====
